---- MODULE Spec2Model ----
(***************************************************************************)
(* Model of package adaptd: the Adapter composition operator Adapt and the *)
(* shipped policy adapters (Notify, RequestMethod, GetAndOtherRequest,     *)
(* DisallowLongerPaths, EnsureHTTPS, HTTPSRedirect, OnCheck) and the       *)
(* instrumentation adapter CountHTTPResponses.                             *)
(*                                                                         *)
(* A Go string is a sequence of tokens, so that concatenation (+) is \o,   *)
(* len is Len and strings.Split is a scan for the separator token.         *)
(* An http.Handler is a record tree; ServeHTTP interprets it.  The         *)
(* http.ResponseWriter, the loggers and the record of which caller         *)
(* supplied handlers ran are one record threaded through ServeHTTP.        *)
(***************************************************************************)
EXTENDS Integers, Sequences, FiniteSets, TLC

VARIABLES base, adapters, handler, r, w, pc, httpRequests, procs, process,
          goroutines, collectors

vars == <<base, adapters, handler, r, w, pc, httpRequests, procs, process,
          goroutines, collectors>>

seqVars == <<base, adapters, handler, r, w, pc>>
countVars == <<httpRequests, procs, process>>
concVars == <<goroutines, collectors>>

(***************************************************************************)
(* Bounds                                                                  *)
(***************************************************************************)
MaxAdapters == 2
MaxRequests == 2
MaxWrites == 2
MaxGoroutines == 2

(***************************************************************************)
(* net/http status codes used by the package                               *)
(***************************************************************************)
StatusOK == 200
StatusTemporaryRedirect == 307
StatusNotFound == 404
StatusMethodNotAllowed == 405
StatusInternalServerError == 500

MethodGet == "GET"
MethodPost == "POST"

(***************************************************************************)
(* Requests                                                                *)
(***************************************************************************)
Methods == {"GET", "POST", "get"}
Hosts == {<<"example.com">>, <<"example.com", ":", "8080">>}
Paths == {<<"/">>, <<"/login">>, <<"/login", "/extra">>}
Queries == {<<>>, <<"a=1">>, <<"a=1", "&", "b=2">>}
\* r.TLS: nil, or a ConnectionState with HandshakeComplete false or true
TLSStates == {"nil", "incomplete", "complete"}
\* r.Header.Get("X-Forwarded-Proto"); <<>> when the header is absent
ForwardedProtos == {<<>>, <<"https">>, <<"http">>}

Requests ==
    [Method : Methods, Host : Hosts, Path : Paths, RawQuery : Queries,
     TLS : TLSStates, XForwardedProto : ForwardedProtos]

NoRequest == [Method |-> "", Host |-> <<>>, Path |-> <<>>, RawQuery |-> <<>>,
              TLS |-> "nil", XForwardedProto |-> <<>>]

(***************************************************************************)
(* The response writer and the observable side effects of one request      *)
(***************************************************************************)
\* &statusRecorder{w, 200}: the two fields of the literal, the wrapped
\* writer (its status, 0 while none is written) and the status held
NewStatusRecorder == [w |-> 0, status |-> StatusOK]

\* statusRecorder.WriteHeader, whose code is not among the sources: the
\* call is forwarded to the wrapped writer, and the recorder, having no
\* field beyond the two above, takes the code while it still holds the
\* 200 it was built with
StatusRecorderWriteHeader(sr, code) ==
    [w |-> IF sr.w = 0 THEN code ELSE sr.w,
     status |-> IF sr.status = StatusOK THEN code ELSE sr.status]

\* w.Header() of a fresh writer: no header set
\* Header names are sequences of characters; header values and bodies are
\* sequences of tokens, as the other strings of the model are.
LowerLetters ==
    <<"a", "b", "c", "d", "e", "f", "g", "h", "i", "j", "k", "l", "m">> \o
    <<"n", "o", "p", "q", "r", "s", "t", "u", "v", "w", "x", "y", "z">>

UpperLetters ==
    <<"A", "B", "C", "D", "E", "F", "G", "H", "I", "J", "K", "L", "M">> \o
    <<"N", "O", "P", "Q", "R", "S", "T", "U", "V", "W", "X", "Y", "Z">>

\* the position of c in letters, 0 when it is not there
LetterIndex(letters, c) ==
    IF \E i \in DOMAIN letters : letters[i] = c
    THEN CHOOSE i \in DOMAIN letters : letters[i] = c
    ELSE 0

toUpper(c) == IF LetterIndex(LowerLetters, c) > 0 THEN UpperLetters[LetterIndex(LowerLetters, c)] ELSE c

toLower(c) == IF LetterIndex(UpperLetters, c) > 0 THEN LowerLetters[LetterIndex(UpperLetters, c)] ELSE c

\* the bytes a header field name may hold (the backquote, which no name of
\* the model holds, is left out)
validHeaderFieldByte(c) ==
    \/ LetterIndex(LowerLetters, c) > 0
    \/ LetterIndex(UpperLetters, c) > 0
    \/ c \in {"0", "1", "2", "3", "4", "5", "6", "7", "8", "9"}
    \/ c \in {"!", "#", "$", "%", "&", "'", "*", "+", "-", ".", "^", "_", "|", "~"}

\* textproto.CanonicalMIMEHeaderKey: the first letter and every letter after
\* a hyphen in upper case, the others in lower case; a name with a byte that
\* no field name may hold is left as it is
CanonicalMIMEHeaderKey(s) ==
    IF \E i \in DOMAIN s : ~validHeaderFieldByte(s[i]) THEN s
    ELSE [i \in 1..Len(s) |->
             IF i = 1 \/ s[i - 1] = "-" THEN toUpper(s[i]) ELSE toLower(s[i])]

\* names of headers
HeaderLocation == <<"L", "o", "c", "a", "t", "i", "o", "n">>
HeaderContentType == <<"C", "o", "n", "t", "e", "n", "t", "-", "T", "y", "p", "e">>
HeaderContentLength == <<"C", "o", "n", "t", "e", "n", "t", "-", "L", "e", "n", "g", "t", "h">>
HeaderXContentTypeOptions == <<"X", "-", "C", "o", "n", "t", "e", "n", "t", "-", "T", "y", "p", "e", "-", "O", "p", "t", "i", "o", "n", "s">>
HeaderSetCookie == <<"S", "e", "t", "-", "C", "o", "o", "k", "i", "e">>
HeaderXFrameOptions == <<"X", "-", "F", "r", "a", "m", "e", "-", "O", "p", "t", "i", "o", "n", "s">>
HeaderXCSRFToken == <<"X", "-", "C", "S", "R", "F", "-", "T", "o", "k", "e", "n">>

NoHeader == [n \in {} |-> <<>>]

\* A fresh http.ResponseWriter: no status written, no header set, no body,
\* nothing logged, no panic in flight; no status recorder wraps it and no
\* metric has been updated for the request.
NewResponseWriter ==
    [status |-> 0, body |-> <<>>, log |-> <<>>, panicking |-> FALSE,
     header |-> NoHeader, recorders |-> <<>>, metrics |-> <<>>]

\* WriteHeader on the writer the handler was given: every status recorder
\* wrapped around the writer sees the call, outermost last, and the writer
\* itself sends the first status written.
WriteHeader(rw, code) ==
    [rw EXCEPT !.status = IF @ = 0 THEN code ELSE @,
               !.recorders = [i \in DOMAIN @ |-> StatusRecorderWriteHeader(@[i], code)]]

\* w.Header().Set(name, value): the entry under the canonical form of name
\* is replaced
SetHeader(rw, name, value) ==
    LET key == CanonicalMIMEHeaderKey(name)
    IN [rw EXCEPT !.header = [n \in DOMAIN @ \cup {key} |-> IF n = key THEN value ELSE @[n]]]

\* w.Header().Del(name)
DelHeader(rw, name) ==
    [rw EXCEPT !.header = [n \in DOMAIN @ \ {CanonicalMIMEHeaderKey(name)} |-> @[n]]]

\* w.Header().Get(name): the value under the canonical form of name, the
\* empty string when there is none
GetHeader(rw, name) ==
    IF CanonicalMIMEHeaderKey(name) \in DOMAIN rw.header
    THEN rw.header[CanonicalMIMEHeaderKey(name)]
    ELSE <<>>

\* w.Write(data): the status is 200 when none was written before, and the
\* data is added to the body
Write(rw, data) ==
    [WriteHeader(rw, IF rw.status = 0 THEN StatusOK ELSE rw.status) EXCEPT
        !.body = @ \o data]

\* fmt.Fprintln(w, s): s and a newline are written
Fprintln(rw, s) == Write(rw, s \o <<"\n">>)

\* htmlEscape of net/http: the ampersand, the angle brackets and the two
\* quotes are replaced by their entities
htmlEscape(s) ==
    [i \in DOMAIN s |->
        CASE s[i] = "&" -> "&amp;"
          [] s[i] = "<" -> "&lt;"
          [] s[i] = ">" -> "&gt;"
          [] s[i] = "\"" -> "&#34;"
          [] s[i] = "'" -> "&#39;"
          [] OTHER -> s[i]]

\* http.StatusText for the codes that are redirected with
StatusText(code) ==
    IF code = StatusTemporaryRedirect THEN "Temporary Redirect" ELSE ""

\* The status the client sees: 200 when the handler wrote none.
StatusCode(rw) == IF rw.status = 0 THEN StatusOK ELSE rw.status

\* http.Error(w, msg, code): Content-Length is deleted, Content-Type and
\* X-Content-Type-Options are set, then the status, then the message and a
\* newline as the body
Error(rw, msg, code) ==
    LET h1 == DelHeader(rw, HeaderContentLength)
        h2 == SetHeader(h1, HeaderContentType, <<"text/plain; charset=utf-8">>)
        h3 == SetHeader(h2, HeaderXContentTypeOptions, <<"nosniff">>)
    IN Fprintln(WriteHeader(h3, code), <<msg>>)

\* http.NotFound(w, r)
NotFound(rw) == Error(rw, "404 page not found", StatusNotFound)

\* http.Redirect(w, r, url, code) for a url that carries a scheme and holds
\* ASCII only (it is taken as it is): the Location header, a Content-Type for
\* GET and HEAD when none was set, then the status, then for GET a short
\* HTML body
Redirect(rw, req, url, code) ==
    LET hadCT == HeaderContentType \in DOMAIN rw.header
        h1 == SetHeader(rw, HeaderLocation, url)
        h2 == IF ~hadCT /\ req.Method \in {"GET", "HEAD"}
              THEN SetHeader(h1, HeaderContentType, <<"text/html; charset=utf-8">>)
              ELSE h1
        w1 == WriteHeader(h2, code)
    IN IF ~hadCT /\ req.Method = "GET"
       THEN Fprintln(w1, <<"<a href=\"">> \o htmlEscape(url)
                             \o <<"\">", StatusText(code), "</a>.\n">>)
       ELSE w1

\* logger.Printf / log.Printf / log.Println: one line on the named logger
Printf(rw, logger, msg) ==
    [rw EXCEPT !.log = Append(@, [ev |-> msg, id |-> logger])]

\* panic(v) with a non-nil v
Panic(rw) == [rw EXCEPT !.panicking = TRUE]

\* recover() inside a deferred function: the panic stops
Recover(rw) == [rw EXCEPT !.panicking = FALSE]

(***************************************************************************)
(* Handlers supplied by the caller                                         *)
(***************************************************************************)
\* A caller's handler: records that it ran, then panics, or writes `code`
\* (0: writes no status, as handlerTester does).
HandlerFunc(name, code, panics) ==
    [kind |-> "HandlerFunc", name |-> name, code |-> code, panics |-> panics]

handlerTester == HandlerFunc("h", 0, FALSE)
handlerPanic == HandlerFunc("h", 0, TRUE)

NotFoundHandler == [kind |-> "NotFound"]

\* A caller's handler that calls WriteHeader once for each of `codes`
HandlerWrites(name, codes) == [kind |-> "HandlerWrites", name |-> name, codes |-> codes]

RECURSIVE WriteHeaderEach(_, _)
WriteHeaderEach(rw, codes) ==
    IF codes = <<>> THEN rw
    ELSE WriteHeaderEach(WriteHeader(rw, Head(codes)), Tail(codes))

HandlerWritesServe(h, rw) ==
    WriteHeaderEach([rw EXCEPT !.log = Append(@, [ev |-> "call", id |-> h.name])], h.codes)

HandlerFuncServe(h, rw) ==
    LET w1 == [rw EXCEPT !.log = Append(@, [ev |-> "call", id |-> h.name])]
    IN IF h.panics THEN Panic(w1)
       ELSE IF h.code = 0 THEN w1
       ELSE WriteHeader(w1, h.code)

(***************************************************************************)
(* Adapters: an Adapter is the record of what its closure captured; the    *)
(* handler it returns for h is Apply(a, h).                                *)
(***************************************************************************)
Notify(logger) == [kind |-> "Notify", logger |-> logger]

GetAndOtherRequest(other, method) ==
    [kind |-> "GetAndOtherRequest", other |-> other, method |-> method]

RequestMethod(method) == [kind |-> "RequestMethod", method |-> method]

DisallowLongerPaths(path, notFoundHandler) ==
    [kind |-> "DisallowLongerPaths", path |-> path, notFoundHandler |-> notFoundHandler]

EnsureHTTPS(allowXForwardedProto) ==
    [kind |-> "EnsureHTTPS", allowXForwardedProto |-> allowXForwardedProto]

\* OnCheck as it stands: the check is taken through panic and recover
OnCheck(f, falseHandler, logOnFalse) ==
    [kind |-> "OnCheck", f |-> f, falseHandler |-> falseHandler, logOnFalse |-> logOnFalse]

\* OnCheck in its earlier form: a direct conditional
OnCheckDirect(f, falseHandler, logOnFalse) ==
    [kind |-> "OnCheckDirect", f |-> f, falseHandler |-> falseHandler,
     logOnFalse |-> logOnFalse]

\* key is the parameter name
AddHeader(name, value) == [kind |-> "AddHeader", key |-> name, value |-> value]

\* tg is the value the generator returns
AddHeaderWithFunc(name, tg) == [kind |-> "AddHeaderWithFunc", key |-> name, tg |-> tg]

\* tg is whether the cookie writer reports a failure
AddCookieWithFunc(name, tg) == [kind |-> "AddCookieWithFunc", key |-> name, tg |-> tg]

\* the adapter CountHTTPResponses() returned
CountHTTPResponses == [kind |-> "CountHTTPResponses", name |-> "http_requests_total"]

\* the adapter TrackHTTPResponseTimes() returned
TrackHTTPResponseTimes == [kind |-> "TrackHTTPResponseTimes", name |-> "http_requests_secs"]

\* HTTPSRedirect(port) is a handler, not an adapter
HTTPSRedirect(port) == [kind |-> "HTTPSRedirect", port |-> port]

\* HTTPSRedirect() in its earlier form, without a port
HTTPSRedirectNoPort == [kind |-> "HTTPSRedirectNoPort"]

\* adapters[i](h): the handler the adapter's closure returns
Apply(a, h) == [kind |-> "Adapted", adapter |-> a, h |-> h]

RECURSIVE AdaptLoop(_, _, _)
\* for i := len(adapters) - 1; i >= 0; i-- { h = adapters[i](h) }
\* (Go indexes from 0, the sequence from 1)
AdaptLoop(h, as, i) ==
    IF i >= 1 THEN AdaptLoop(Apply(as[i], h), as, i - 1) ELSE h

RECURSIVE AdaptForwardLoop(_, _, _)
AdaptForwardLoop(h, as, i) ==
    IF i <= Len(as) THEN AdaptForwardLoop(Apply(as[i], h), as, i + 1) ELSE h

\* variant: the adapters are attached first to last, so the first is innermost
AdaptFirstInnermost(h, as) == AdaptForwardLoop(h, as, 1)

\* variant: the fold starts from a nil handler when there is nothing to fold
AdaptDropsBase(h, as) ==
    IF as = <<>> THEN HandlerFunc("nil", 0, TRUE) ELSE AdaptLoop(h, as, Len(as))

Adapt(h, as) == AdaptLoop(h, as, Len(as))

(***************************************************************************)
(* Helpers of the handlers                                                 *)
(***************************************************************************)
\* variant: the forwarded-proto header is trusted whatever the flag
isHTTPSTrustsHeader(req, allowXForwardedProto) ==
    \/ (req.TLS # "nil" /\ req.TLS = "complete")
    \/ req.XForwardedProto = <<"https">>

isHTTPS(req, allowXForwardedProto) ==
    \/ (req.TLS # "nil" /\ req.TLS = "complete")
    \/ (allowXForwardedProto /\ req.XForwardedProto = <<"https">>)

RECURSIVE SplitFirst(_, _)
\* strings.Split(s, sep)[0]: the part of s before the first sep
SplitFirst(s, sep) ==
    IF s = <<>> \/ Head(s) = sep THEN <<>>
    ELSE <<Head(s)>> \o SplitFirst(Tail(s), sep)

\* variant: the "?" is appended without looking at the length of the query
WithQueryAlways(target, req) == target \o <<"?">> \o req.RawQuery

\* target += "?" + r.URL.RawQuery when the query is not empty
WithQuery(target, req) ==
    IF Len(req.RawQuery) > 0 THEN target \o <<"?">> \o req.RawQuery ELSE target

\* the redirect target of EnsureHTTPS (and of the port-less HTTPSRedirect)
HTTPSTarget(req) == WithQuery(<<"https://">> \o req.Host \o req.Path, req)

\* variant: the port of the request's Host is not cut off
HTTPSPortTargetKeepsHost(port, req) ==
    WithQuery(<<"https://">> \o req.Host \o <<":">> \o port \o req.Path, req)

\* the redirect target of HTTPSRedirect(port)
HTTPSPortTarget(port, req) ==
    WithQuery(<<"https://">> \o SplitFirst(req.Host, ":") \o <<":">> \o port \o req.Path,
              req)

Digits == <<"0", "1", "2", "3", "4", "5", "6", "7", "8", "9">>

RECURSIVE Itoa(_)
\* strconv.Itoa: the decimal digits of n
Itoa(n) ==
    IF n < 0 THEN <<"-">> \o Itoa(0 - n)
    ELSE IF n < 10 THEN <<Digits[n + 1]>>
    ELSE Itoa(n \div 10) \o <<Digits[(n % 10) + 1]>>

\* the label values of the request: endpoint, code, method
LabelValues(req, sr) == <<req.Path, Itoa(sr.status), req.Method>>

\* tg() of AddHeaderWithFunc: the generator is called
CallGenerator(rw) == [rw EXCEPT !.log = Append(@, [ev |-> "call", id |-> "tg"])]

\* tg(w, r) of AddCookieWithFunc: the writer is called and sets the cookie,
\* or reports a failure and sets nothing
CallCookieWriter(fails, rw) ==
    LET w1 == [rw EXCEPT !.log = Append(@, [ev |-> "call", id |-> "tg"])]
    IN IF fails THEN w1 ELSE SetHeader(w1, HeaderSetCookie, <<"cookie">>)

\* sr := &statusRecorder{w, 200}: the handler inside is given sr
PushRecorder(rw) == [rw EXCEPT !.recorders = Append(@, NewStatusRecorder)]

\* the recorder the adapter made, once the handler inside is through
LastRecorder(rw) == rw.recorders[Len(rw.recorders)]

PopRecorder(rw) == [rw EXCEPT !.recorders = SubSeq(@, 1, Len(@) - 1)]

\* the collector `name` is updated for the label values: Inc of the counter,
\* Observe of the summary (the observed number of seconds is not kept)
UpdateMetric(rw, name, labels) ==
    [rw EXCEPT !.metrics = Append(@, [name |-> name, labels |-> labels])]

\* f(w, r) of a HandlerChecker: it is called, and returns or panics
CallChecker(f, rw) ==
    LET w1 == [rw EXCEPT !.log = Append(@, [ev |-> "call", id |-> "f"])]
    IN IF f = "panic" THEN Panic(w1) ELSE w1

(***************************************************************************)
(* ServeHTTP                                                               *)
(***************************************************************************)
RECURSIVE ServeHTTP(_, _, _)

\* variant: the completion line is logged after the call, not deferred
NotifyWithoutDefer(a, h, rw, req) ==
    LET w1 == Printf(rw, a.logger, "Handling")
        w2 == ServeHTTP(h, w1, req)
    IN IF w2.panicking THEN w2 ELSE Printf(w2, a.logger, "handled")

NotifyHandler(a, h, rw, req) ==
    LET w1 == Printf(rw, a.logger, "Handling")
        w2 == ServeHTTP(h, w1, req)
    IN  \* deferred: runs however h.ServeHTTP ends
        Printf(w2, a.logger, "handled")

\* variant: the GET case is tested before the configured method
GetAndOtherRequestGetFirst(a, h, rw, req) ==
    IF req.Method = MethodGet THEN ServeHTTP(h, rw, req)
    ELSE IF req.Method = a.method THEN ServeHTTP(a.other, rw, req)
    ELSE Error(rw, "Request method not allowed", StatusMethodNotAllowed)

GetAndOtherRequestHandler(a, h, rw, req) ==
    IF req.Method = a.method THEN ServeHTTP(a.other, rw, req)
    ELSE IF req.Method = MethodGet THEN ServeHTTP(h, rw, req)
    ELSE Error(rw, "Request method not allowed", StatusMethodNotAllowed)

\* variant: the 405 branch falls through to the primary handler
RequestMethodFallsThrough(a, h, rw, req) ==
    IF req.Method = a.method THEN ServeHTTP(h, rw, req)
    ELSE ServeHTTP(h, Error(rw, "Request method not allowed", StatusMethodNotAllowed), req)

\* strings.ToUpper on the methods of the model
ToUpper(m) == IF m = "get" THEN "GET" ELSE m

\* variant: the methods are compared without regard to case
RequestMethodFoldCase(a, h, rw, req) ==
    IF ToUpper(req.Method) = ToUpper(a.method) THEN ServeHTTP(h, rw, req)
    ELSE Error(rw, "Request method not allowed", StatusMethodNotAllowed)

RequestMethodHandler(a, h, rw, req) ==
    IF req.Method = a.method THEN ServeHTTP(h, rw, req)
    ELSE Error(rw, "Request method not allowed", StatusMethodNotAllowed)

\* strings.HasPrefix(s, prefix)
HasPrefix(s, prefix) ==
    Len(prefix) <= Len(s) /\ SubSeq(s, 1, Len(prefix)) = prefix

\* variant: the registered path is matched as a prefix
DisallowLongerPathsPrefix(a, h, rw, req) ==
    IF ~HasPrefix(req.Path, a.path)
    THEN ServeHTTP(a.notFoundHandler, Printf(rw, "std", "unexpected path"), req)
    ELSE ServeHTTP(h, rw, req)

DisallowLongerPathsHandler(a, h, rw, req) ==
    IF req.Path # a.path
    THEN ServeHTTP(a.notFoundHandler, Printf(rw, "std", "unexpected path"), req)
    ELSE ServeHTTP(h, rw, req)

HTTPSRedirectHandler(hd, rw, req) ==
    Redirect(Printf(rw, "std", "redirect"), req, HTTPSPortTarget(hd.port, req),
             StatusTemporaryRedirect)

HTTPSRedirectNoPortHandler(rw, req) ==
    Redirect(Printf(rw, "std", "redirect"), req, HTTPSTarget(req), StatusTemporaryRedirect)

EnsureHTTPSHandler(a, h, rw, req) ==
    IF ~isHTTPS(req, a.allowXForwardedProto)
    THEN Redirect(Printf(rw, "std", "redirect"), req, HTTPSTarget(req),
                  StatusTemporaryRedirect)
    ELSE ServeHTTP(h, rw, req)

\* variant: the deferred function tests the recovered value the wrong way round
OnCheckInverted(a, h, rw, req) ==
    LET w1 == CallChecker(a.f, rw)
        w2 == IF w1.panicking \/ a.f = "false" THEN Panic(w1) ELSE w1
    IN IF ~w2.panicking
       THEN ServeHTTP(a.falseHandler, Printf(w2, "std", a.logOnFalse), req)
       ELSE ServeHTTP(h, Recover(w2), req)

\* variant: the primary handler runs in the body, under the deferred recover
OnCheckRecoversHandler(a, h, rw, req) ==
    LET w1 == CallChecker(a.f, rw)
        w2 == IF w1.panicking \/ a.f = "false" THEN Panic(w1) ELSE ServeHTTP(h, w1, req)
    IN IF w2.panicking
       THEN ServeHTTP(a.falseHandler,
                      Printf(Printf(Recover(w2), "std", "recovered"), "std", a.logOnFalse),
                      req)
       ELSE w2

OnCheckHandler(a, h, rw, req) ==
    LET w1 == CallChecker(a.f, rw)
        \* if !f(w, r) { panic(false) }
        w2 == IF w1.panicking \/ a.f = "false" THEN Panic(w1) ELSE w1
    IN  \* the deferred function
        IF w2.panicking
        THEN ServeHTTP(a.falseHandler,
                       Printf(Printf(Recover(w2), "std", "recovered"), "std", a.logOnFalse),
                       req)
        ELSE ServeHTTP(h, w2, req)

OnCheckDirectHandler(a, h, rw, req) ==
    LET w1 == CallChecker(a.f, rw)
    IN IF w1.panicking THEN w1
       ELSE IF a.f = "false"
       THEN ServeHTTP(a.falseHandler, Printf(w1, "std", a.logOnFalse), req)
       ELSE ServeHTTP(h, w1, req)

AddHeaderHandler(a, h, rw, req) ==
    ServeHTTP(h, SetHeader(rw, a.key, a.value), req)

AddHeaderWithFuncHandler(a, h, rw, req) ==
    ServeHTTP(h, SetHeader(CallGenerator(rw), a.key, a.tg), req)

\* variant: a failure of the cookie writer ends the request with a 500
AddCookieAbortsOnFailure(a, h, rw, req) ==
    LET w1 == CallCookieWriter(a.tg, rw)
    IN IF a.tg THEN Error(w1, "cookie", StatusInternalServerError)
       ELSE ServeHTTP(h, w1, req)

AddCookieWithFuncHandler(a, h, rw, req) ==
    \* the error tg returns is dropped
    ServeHTTP(h, CallCookieWriter(a.tg, rw), req)

\* variant: the increment of the counter is deferred
CountHTTPResponsesDeferred(a, h, rw, req) ==
    LET w1 == ServeHTTP(h, PushRecorder(rw), req)
    IN UpdateMetric(PopRecorder(w1), a.name, LabelValues(req, LastRecorder(w1)))

\* the handler inside runs on a status recorder; when it has returned, the
\* counter of (path, recorded status, method) is incremented
CountHTTPResponsesHandler(a, h, rw, req) ==
    LET w1 == ServeHTTP(h, PushRecorder(rw), req)
    IN IF w1.panicking THEN PopRecorder(w1)
       ELSE UpdateMetric(PopRecorder(w1), a.name, LabelValues(req, LastRecorder(w1)))

\* the same with the summary: start is taken before the handler inside runs,
\* and the elapsed seconds are observed when it has returned
TrackHTTPResponseTimesHandler(a, h, rw, req) ==
    LET w1 == ServeHTTP(h, PushRecorder(rw), req)
    IN IF w1.panicking THEN PopRecorder(w1)
       ELSE UpdateMetric(PopRecorder(w1), a.name, LabelValues(req, LastRecorder(w1)))

AdaptedServe(a, h, rw, req) ==
    CASE a.kind = "Notify" -> NotifyHandler(a, h, rw, req)
      [] a.kind = "GetAndOtherRequest" -> GetAndOtherRequestHandler(a, h, rw, req)
      [] a.kind = "RequestMethod" -> RequestMethodHandler(a, h, rw, req)
      [] a.kind = "DisallowLongerPaths" -> DisallowLongerPathsHandler(a, h, rw, req)
      [] a.kind = "EnsureHTTPS" -> EnsureHTTPSHandler(a, h, rw, req)
      [] a.kind = "OnCheck" -> OnCheckHandler(a, h, rw, req)
      [] a.kind = "OnCheckDirect" -> OnCheckDirectHandler(a, h, rw, req)
      [] a.kind = "AddHeader" -> AddHeaderHandler(a, h, rw, req)
      [] a.kind = "AddHeaderWithFunc" -> AddHeaderWithFuncHandler(a, h, rw, req)
      [] a.kind = "AddCookieWithFunc" -> AddCookieWithFuncHandler(a, h, rw, req)
      [] a.kind = "CountHTTPResponses" -> CountHTTPResponsesHandler(a, h, rw, req)
      [] a.kind = "TrackHTTPResponseTimes" -> TrackHTTPResponseTimesHandler(a, h, rw, req)

ServeHTTP(hd, rw, req) ==
    CASE hd.kind = "HandlerFunc" -> HandlerFuncServe(hd, rw)
      [] hd.kind = "HandlerWrites" -> HandlerWritesServe(hd, rw)
      [] hd.kind = "NotFound" -> NotFound(rw)
      [] hd.kind = "HTTPSRedirect" -> HTTPSRedirectHandler(hd, rw, req)
      [] hd.kind = "HTTPSRedirectNoPort" -> HTTPSRedirectNoPortHandler(rw, req)
      [] hd.kind = "Adapted" -> AdaptedServe(hd.adapter, hd.h, rw, req)

(***************************************************************************)
(* The handlers and adapters the model composes                            *)
(***************************************************************************)
Loggers == {"L1", "L2"}
Ports == {<<"443">>}
CheckerOutcomes == {"true", "false", "panic"}

otherHandler == HandlerFunc("other", 0, FALSE)
falseHandler == HandlerFunc("else", 0, FALSE)
customNotFound == HandlerFunc("notFound", StatusNotFound, FALSE)

BaseHandlers ==
    {handlerTester, handlerPanic, HandlerFunc("h", StatusInternalServerError, FALSE),
     HandlerWrites("h", <<StatusNotFound, StatusInternalServerError>>),
     HTTPSRedirectNoPort}
    \cup {HTTPSRedirect(p) : p \in Ports}

\* the adapters that are also composed into longer chains
ChainAdapters ==
    {Notify(l) : l \in Loggers}
    \cup {RequestMethod(MethodGet),
          GetAndOtherRequest(otherHandler, MethodPost),
          DisallowLongerPaths(<<"/login">>, NotFoundHandler)}

Adapters ==
    ChainAdapters
    \cup {RequestMethod(MethodPost),
          GetAndOtherRequest(otherHandler, MethodGet),
          DisallowLongerPaths(<<"/login">>, customNotFound),
          EnsureHTTPS(TRUE), EnsureHTTPS(FALSE)}
    \cup {OnCheck(f, falseHandler, "logOnFalse") : f \in CheckerOutcomes}
    \cup {OnCheckDirect(f, falseHandler, "logOnFalse") : f \in CheckerOutcomes}
    \cup {AddHeader(HeaderXFrameOptions, <<"DENY">>),
          AddHeaderWithFunc(HeaderXCSRFToken, <<"token">>),
          AddCookieWithFunc(<<"c", "s", "r", "f">>, TRUE), AddCookieWithFunc(<<"c", "s", "r", "f">>, FALSE),
          CountHTTPResponses, TrackHTTPResponseTimes}

SeqsUpTo(S, n) == UNION {[1..k -> S] : k \in 0..n}

Chains == SeqsUpTo(ChainAdapters, MaxAdapters) \cup {<<a>> : a \in Adapters}

(***************************************************************************)
(* The collector and the status recorder of the instrumentation adapters   *)
(***************************************************************************)
Procs == 1..MaxRequests

\* the statuses an inner handler sets
InnerCodes == {StatusNotFound, StatusInternalServerError}

CountRequests ==
    {req \in Requests :
        /\ req.Method \in {"GET", "POST"}
        /\ req.Path \in {<<"/">>, <<"/login">>}
        /\ req.Host = <<"example.com">>
        /\ req.RawQuery = <<>>
        /\ req.TLS = "nil"
        /\ req.XForwardedProto = <<>>}

\* prometheus.NewCounterVec: no label values seen yet
NewCounterVec == [k \in {} |-> 0]

\* the value of the counter for label values k; 0 while it has no child
Value(c, k) == IF k \in DOMAIN c THEN c[k] ELSE 0

\* c.WithLabelValues(k...): under the lock of the vector, the child for k is
\* found, or made at 0 when there is none
WithLabelValues(c, k) == [x \in DOMAIN c \cup {k} |-> Value(c, x)]

\* variant: the child is set rather than incremented
IncOverwrites(c, k) == [c EXCEPT ![k] = 1]

\* Inc() on the child WithLabelValues returned (Observe on a child of the
\* summary): an atomic addition
Inc(c, k) == [c EXCEPT ![k] = @ + 1]

RECURSIVE WriteHeaders(_, _)
\* the inner handler's calls of WriteHeader, in order
WriteHeaders(sr, codes) ==
    IF codes = <<>> THEN sr
    ELSE WriteHeaders(StatusRecorderWriteHeader(sr, Head(codes)), Tail(codes))

IdleProc == [pc |-> "idle", r |-> NoRequest, sr |-> NewStatusRecorder]

\* variant: a second collector of the same name is taken without an error
RegisterAcceptsDuplicate(registry, name) ==
    [registry |-> Append(registry, name), err |-> FALSE]

\* prometheus.Register on the default registry: a collector whose name is
\* registered already is refused with an error, any other is added
Register(registry, name) ==
    IF \E i \in DOMAIN registry : registry[i] = name
    THEN [registry |-> registry, err |-> TRUE]
    ELSE [registry |-> Append(registry, name), err |-> FALSE]

\* the process at its start: nothing registered, no constructor called
NewProcess == [registry |-> <<>>, built |-> <<>>, calls |-> <<>>, fatal |-> FALSE]

\* a constructor of an instrumentation adapter is called: the collector is
\* made, prometheus.MustRegister panics when Register refuses it, and
\* otherwise the adapter is returned
Constructed(ps, c) ==
    LET res == Register(ps.registry, c.name)
    IN [registry |-> res.registry,
        built |-> IF res.err THEN ps.built ELSE Append(ps.built, c),
        calls |-> Append(ps.calls, c.name),
        fatal |-> res.err]

Goroutines == 1..MaxGoroutines

\* a goroutine of the server before it is given a request: todo is the
\* handler it enters next, frames the adapters whose handlers wait for their
\* inner handler to come back
IdleGoroutine(h) ==
    [pc |-> "idle", r |-> NoRequest, rw |-> NewResponseWriter, todo |-> h, frames |-> <<>>]

\* the counter vector and the summary vector of the two instrumentation
\* adapters, shared by all requests
NewCollectors ==
    [n \in {CountHTTPResponses.name, TrackHTTPResponseTimes.name} |-> NewCounterVec]

(***************************************************************************)
(* One handler serving one request at a time                               *)
(***************************************************************************)
Init ==
    /\ base = handlerTester
    /\ adapters = <<>>
    /\ handler = handlerTester
    /\ r = NoRequest
    /\ w = NewResponseWriter
    /\ pc = "setup"
    /\ httpRequests = NewCounterVec
    /\ procs = [p \in Procs |-> IdleProc]
    \* both instrumentation adapters were constructed, once each
    /\ process = Constructed(Constructed(NewProcess, CountHTTPResponses),
                             TrackHTTPResponseTimes)
    /\ goroutines = [p \in Goroutines |-> IdleGoroutine(handlerTester)]
    /\ collectors = NewCollectors

\* server setup: the chain is built once
Compose ==
    /\ pc = "setup"
    /\ \E b \in BaseHandlers, as \in Chains :
          /\ base' = b
          /\ adapters' = as
          /\ handler' = Adapt(b, as)
    /\ pc' = "ready"
    /\ UNCHANGED <<r, w, countVars, concVars>>

\* a request arrives and the composed handler runs to completion on a fresh
\* response writer
Serve ==
    /\ pc = "ready"
    /\ \E req \in Requests :
          /\ r' = req
          /\ w' = ServeHTTP(handler, NewResponseWriter, req)
    /\ pc' = "done"
    /\ UNCHANGED <<base, adapters, handler, countVars, concVars>>

\* the request and its response are discarded; the handler stays
Discard ==
    /\ pc = "done"
    /\ r' = NoRequest
    /\ w' = NewResponseWriter
    /\ pc' = "ready"
    /\ UNCHANGED <<base, adapters, handler, countVars, concVars>>

Next == Compose \/ Serve \/ Discard

Spec == Init /\ [][Next]_vars

(***************************************************************************)
(* CountHTTPResponses: requests served concurrently by the one handler     *)
(* CountHTTPResponses()(h), all counting into the one collector            *)
(***************************************************************************)
InitCount ==
    /\ base = handlerTester
    /\ adapters = <<>>
    /\ handler = handlerTester
    /\ r = NoRequest
    /\ w = NewResponseWriter
    /\ pc = "setup"
    /\ httpRequests = NewCounterVec
    /\ procs = [p \in Procs |-> IdleProc]
    /\ process = NewProcess
    /\ goroutines = [p \in Goroutines |-> IdleGoroutine(handlerTester)]
    /\ collectors = NewCollectors

\* CountHTTPResponses() or TrackHTTPResponseTimes() is called; a panic of
\* MustRegister ends the process
Construct(c) ==
    /\ ~process.fatal
    /\ process' = Constructed(process, c)
    /\ UNCHANGED <<httpRequests, procs, seqVars, concVars>>

\* the adapter CountHTTPResponses() returned is in use
Counting ==
    /\ ~process.fatal
    /\ \E i \in DOMAIN process.built : process.built[i] = CountHTTPResponses

\* sr := &statusRecorder{w, 200}
CountBegin(p) ==
    /\ Counting
    /\ procs[p].pc = "idle"
    /\ \E req \in CountRequests :
          procs' = [procs EXCEPT ![p] =
                       [pc |-> "serving", r |-> req, sr |-> NewStatusRecorder]]
    /\ UNCHANGED <<httpRequests, process, seqVars, concVars>>

\* h.ServeHTTP(sr, r): the inner handler sets a status any number of times,
\* then returns or panics; a panic unwinds the request's goroutine, and sr
\* and the request go with it
CountServeInner(p) ==
    /\ Counting
    /\ procs[p].pc = "serving"
    /\ \E codes \in SeqsUpTo(InnerCodes, MaxWrites), panics \in BOOLEAN :
          procs' = [procs EXCEPT ![p] =
                       IF panics THEN [IdleProc EXCEPT !.pc = "panicked"]
                       ELSE [@ EXCEPT !.sr = WriteHeaders(@, codes), !.pc = "returned"]]
    /\ UNCHANGED <<httpRequests, process, seqVars, concVars>>

\* httpRequests.WithLabelValues(r.URL.Path, strconv.Itoa(sr.status), r.Method):
\* the child is there from now on; the lock of the vector is released before
\* Inc runs
CountWithLabelValues(p) ==
    /\ Counting
    /\ procs[p].pc = "returned"
    /\ httpRequests' = WithLabelValues(httpRequests, LabelValues(procs[p].r, procs[p].sr))
    /\ procs' = [procs EXCEPT ![p].pc = "labelled"]
    /\ UNCHANGED <<process, seqVars, concVars>>

\* .Inc() on the child
CountInc(p) ==
    /\ Counting
    /\ procs[p].pc = "labelled"
    /\ httpRequests' = Inc(httpRequests, LabelValues(procs[p].r, procs[p].sr))
    /\ procs' = [procs EXCEPT ![p].pc = "done"]
    /\ UNCHANGED <<process, seqVars, concVars>>

NextCount ==
    \/ Construct(CountHTTPResponses)
    \/ Construct(TrackHTTPResponseTimes)
    \/ \E p \in Procs :
          CountBegin(p) \/ CountServeInner(p) \/ CountWithLabelValues(p) \/ CountInc(p)

SpecCount == InitCount /\ [][NextCount]_vars

(***************************************************************************)
(* One handler serving several requests at once, each in its goroutine     *)
(***************************************************************************)
ConcRequests == CountRequests

ConcBases == {handlerTester, handlerPanic, HandlerWrites("h", <<StatusNotFound>>)}

ConcChains ==
    {<<Notify("L1"), CountHTTPResponses, RequestMethod(MethodGet)>>,
     <<TrackHTTPResponseTimes, AddHeaderWithFunc(HeaderXCSRFToken, <<"token">>),
       DisallowLongerPaths(<<"/login">>, NotFoundHandler)>>,
     <<GetAndOtherRequest(otherHandler, MethodPost), AddCookieWithFunc(<<"c", "s", "r", "f">>, TRUE),
       Notify("L2")>>,
     <<OnCheck("false", falseHandler, "logOnFalse"), CountHTTPResponses>>,
     <<CountHTTPResponses, OnCheck("true", falseHandler, "logOnFalse")>>,
     <<OnCheckDirect("panic", falseHandler, "logOnFalse")>>,
     <<EnsureHTTPS(FALSE), AddHeader(HeaderXFrameOptions, <<"DENY">>)>>,
     <<AddHeader(HeaderXFrameOptions, <<"DENY">>), TrackHTTPResponseTimes,
       CountHTTPResponses>>}

\* variant: the handlers read the request from a variable their closures share
RequestOfFirst(gs, p) == gs[1].r

\* r, the request the handler running in goroutine p was called with
RequestOf(gs, p) == gs[p].r

\* the handler goes on into hd
Continue(g, rw, hd) == [g EXCEPT !.rw = rw, !.todo = hd]

\* the handler goes into hd and has something left to do when hd is through
ContinueFrame(g, rw, frame, hd) ==
    [g EXCEPT !.rw = rw, !.todo = hd, !.frames = Append(@, frame)]

\* the handler is through without calling a further handler
Finish(g, rw) == [g EXCEPT !.rw = rw, !.pc = "unwinding"]

\* the handler of adapter a around h runs up to the next handler it calls
EnterAdapter(g, a, h, req) ==
    LET rw == g.rw
    IN CASE a.kind = "Notify" ->
              ContinueFrame(g, Printf(rw, a.logger, "Handling"),
                            [kind |-> "Notify", id |-> a.logger, labelled |-> FALSE], h)
         [] a.kind = "RequestMethod" ->
              IF req.Method = a.method THEN Continue(g, rw, h)
              ELSE Finish(g, Error(rw, "Request method not allowed", StatusMethodNotAllowed))
         [] a.kind = "GetAndOtherRequest" ->
              IF req.Method = a.method THEN Continue(g, rw, a.other)
              ELSE IF req.Method = MethodGet THEN Continue(g, rw, h)
              ELSE Finish(g, Error(rw, "Request method not allowed", StatusMethodNotAllowed))
         [] a.kind = "DisallowLongerPaths" ->
              IF req.Path # a.path
              THEN Continue(g, Printf(rw, "std", "unexpected path"), a.notFoundHandler)
              ELSE Continue(g, rw, h)
         [] a.kind = "EnsureHTTPS" ->
              IF ~isHTTPS(req, a.allowXForwardedProto)
              THEN Finish(g, Redirect(Printf(rw, "std", "redirect"), req, HTTPSTarget(req),
                                      StatusTemporaryRedirect))
              ELSE Continue(g, rw, h)
         [] a.kind = "OnCheck" ->
              LET w1 == CallChecker(a.f, rw)
              IN IF w1.panicking \/ a.f = "false"
                 THEN Continue(g, Printf(Printf(Recover(w1), "std", "recovered"),
                                         "std", a.logOnFalse),
                               a.falseHandler)
                 ELSE Continue(g, w1, h)
         [] a.kind = "OnCheckDirect" ->
              LET w1 == CallChecker(a.f, rw)
              IN IF w1.panicking THEN Finish(g, w1)
                 ELSE IF a.f = "false"
                 THEN Continue(g, Printf(w1, "std", a.logOnFalse), a.falseHandler)
                 ELSE Continue(g, w1, h)
         [] a.kind = "AddHeader" -> Continue(g, SetHeader(rw, a.key, a.value), h)
         [] a.kind = "AddHeaderWithFunc" ->
              Continue(g, SetHeader(CallGenerator(rw), a.key, a.tg), h)
         [] a.kind = "AddCookieWithFunc" -> Continue(g, CallCookieWriter(a.tg, rw), h)
         [] a.kind \in {"CountHTTPResponses", "TrackHTTPResponseTimes"} ->
              ContinueFrame(g, PushRecorder(rw), [kind |-> a.kind, id |-> a.name, labelled |-> FALSE], h)

\* the goroutine enters the handler in hand: an adapter's handler runs up to
\* its next call, a handler of the caller runs through
Enter(g, req) ==
    IF g.todo.kind = "Adapted" THEN EnterAdapter(g, g.todo.adapter, g.todo.h, req)
    ELSE Finish(g, ServeHTTP(g.todo, g.rw, req))

\* the frame on top of the stack of goroutine g
TopFrame(g) == g.frames[Len(g.frames)]

\* the handler inside an instrumentation adapter has returned, and the
\* adapter has not looked up the child of its collector yet
AtWithLabelValues(g) ==
    /\ g.pc = "unwinding"
    /\ g.frames # <<>>
    /\ TopFrame(g).kind # "Notify"
    /\ ~g.rw.panicking
    /\ ~TopFrame(g).labelled

\* httpRequests.WithLabelValues(...) has returned the child
Labelled(g) == [g EXCEPT !.frames[Len(g.frames)].labelled = TRUE]

\* the innermost waiting adapter gets control back: Notify's deferred line
\* is logged however the handler inside ended; the instrumentation adapters
\* go on to Inc / Observe on the child only when it returned
Leave(g, req) ==
    LET f == g.frames[Len(g.frames)]
        popped == [g EXCEPT !.frames = SubSeq(@, 1, Len(@) - 1)]
    IN IF f.kind = "Notify" THEN [popped EXCEPT !.rw = Printf(@, f.id, "handled")]
       ELSE IF g.rw.panicking THEN [popped EXCEPT !.rw = PopRecorder(@)]
       ELSE [popped EXCEPT
                !.rw = UpdateMetric(PopRecorder(@), f.id, LabelValues(req, LastRecorder(@)))]

\* the update of the shared collector that goes with Leave
LeaveCollectors(cs, g, req) ==
    LET f == g.frames[Len(g.frames)]
    IN IF f.kind = "Notify" \/ g.rw.panicking THEN cs
       ELSE [cs EXCEPT ![f.id] = Inc(@, LabelValues(req, LastRecorder(g.rw)))]

InitConc ==
    /\ \E b \in ConcBases, as \in ConcChains :
          /\ base = b
          /\ adapters = as
          /\ handler = Adapt(b, as)
          /\ goroutines = [p \in Goroutines |-> IdleGoroutine(Adapt(b, as))]
    /\ r = NoRequest
    /\ w = NewResponseWriter
    /\ pc = "ready"
    /\ httpRequests = NewCounterVec
    /\ procs = [p \in Procs |-> IdleProc]
    /\ process = Constructed(Constructed(NewProcess, CountHTTPResponses),
                             TrackHTTPResponseTimes)
    /\ collectors = NewCollectors

\* the server starts a goroutine for a request that arrived
ConcBegin(p) ==
    /\ goroutines[p].pc = "idle"
    /\ \E req \in ConcRequests :
          goroutines' = [goroutines EXCEPT ![p] = [@ EXCEPT !.r = req, !.pc = "running"]]
    /\ UNCHANGED <<collectors, seqVars, countVars>>

\* the goroutine runs the handler in hand up to the next call
ConcEnter(p) ==
    /\ goroutines[p].pc = "running"
    /\ goroutines' = [goroutines EXCEPT ![p] = Enter(@, RequestOf(goroutines, p))]
    /\ UNCHANGED <<collectors, seqVars, countVars>>

\* an instrumentation adapter looks up the child of its collector; the lock
\* of the vector is released before Inc / Observe runs
ConcWithLabelValues(p) ==
    /\ AtWithLabelValues(goroutines[p])
    /\ goroutines' = [goroutines EXCEPT ![p] = Labelled(@)]
    /\ collectors' =
          [collectors EXCEPT ![TopFrame(goroutines[p]).id] =
              WithLabelValues(@, LabelValues(RequestOf(goroutines, p),
                                             LastRecorder(goroutines[p].rw)))]
    /\ UNCHANGED <<seqVars, countVars>>

\* control comes back to the innermost waiting adapter: Notify's deferred
\* function runs, a panic goes past an instrumentation adapter, or the
\* adapter updates the child it holds
ConcLeave(p) ==
    /\ goroutines[p].pc = "unwinding"
    /\ goroutines[p].frames # <<>>
    /\ ~AtWithLabelValues(goroutines[p])
    /\ goroutines' = [goroutines EXCEPT ![p] = Leave(@, RequestOf(goroutines, p))]
    /\ collectors' = LeaveCollectors(collectors, goroutines[p], RequestOf(goroutines, p))
    /\ UNCHANGED <<seqVars, countVars>>

\* the composed handler is through: the server ends the request
ConcReturn(p) ==
    /\ goroutines[p].pc = "unwinding"
    /\ goroutines[p].frames = <<>>
    /\ goroutines' = [goroutines EXCEPT ![p].pc = "done"]
    /\ UNCHANGED <<collectors, seqVars, countVars>>

NextConc ==
    \E p \in Goroutines :
        \/ ConcBegin(p) \/ ConcEnter(p)
        \/ ConcWithLabelValues(p) \/ ConcLeave(p) \/ ConcReturn(p)

SpecConc == InitConc /\ [][NextConc]_vars

(***************************************************************************)
(* Vocabulary of the properties                                            *)
(***************************************************************************)
\* how many times the caller's handler `name` was invoked for the request
Calls(rw, name) ==
    Cardinality({i \in 1..Len(rw.log) : rw.log[i] = [ev |-> "call", id |-> name]})

\* the position of the first log entry e, 0 when there is none
FirstAt(rw, e) ==
    IF \E i \in 1..Len(rw.log) : rw.log[i] = e
    THEN CHOOSE i \in 1..Len(rw.log) :
            rw.log[i] = e /\ \A j \in 1..(i - 1) : rw.log[j] # e
    ELSE 0

\* the composed handler is a single adapter of the given kind around base
Single(kind) == pc = "done" /\ Len(adapters) = 1 /\ adapters[1].kind = kind

\* what base does on its own for the request in hand
BaseAlone == ServeHTTP(base, NewResponseWriter, r)

\* base is a caller's handler, whose invocations are recorded
CallerBase == base.kind \in {"HandlerFunc", "HandlerWrites"}

\* the request passes adapter a, which then delegates without a side effect
\* of its own other than Notify's two log lines
Passes(a, req) ==
    CASE a.kind = "Notify" -> TRUE
      [] a.kind = "RequestMethod" -> req.Method = a.method
      [] a.kind = "GetAndOtherRequest" -> req.Method = "GET" /\ a.method # "GET"
      [] a.kind = "DisallowLongerPaths" -> req.Path = a.path
      [] a.kind = "EnsureHTTPS" ->
            req.TLS = "complete" \/ (a.allowXForwardedProto /\ req.XForwardedProto = <<"https">>)
      [] OTHER -> FALSE

NotifyLoggers(as) ==
    LET n == SelectSeq(as, LAMBDA a : a.kind = "Notify")
    IN [i \in 1..Len(n) |-> n[i].logger]

EntryLog(as) ==
    LET l == NotifyLoggers(as)
    IN [i \in 1..Len(l) |-> [ev |-> "Handling", id |-> l[i]]]

ExitLog(as) ==
    LET l == NotifyLoggers(as)
    IN [i \in 1..Len(l) |-> [ev |-> "handled", id |-> l[Len(l) + 1 - i]]]

(***************************************************************************)
(* C1: chain-order law.  When every adapter of Adapt(b, a0, ..., an)       *)
(* delegates the request, the entry side effects appear in the order       *)
(* a0, ..., an, then those of b, then the exit side effects in the order   *)
(* an, ..., a0: the first adapter is the outermost wrapper.                *)
(***************************************************************************)
ChainOrderLaw ==
    (pc = "done" /\ \A i \in 1..Len(adapters) : Passes(adapters[i], r))
        => w.log = EntryLog(adapters) \o BaseAlone.log \o ExitLog(adapters)

ChainOrderWitness ==
    /\ pc = "done"
    /\ Len(adapters) = 2
    /\ adapters[1] = Notify("L1")
    /\ adapters[2] = Notify("L2")
    /\ base = handlerTester
    /\ w.log = <<[ev |-> "Handling", id |-> "L1"], [ev |-> "Handling", id |-> "L2"],
                 [ev |-> "call", id |-> "h"],
                 [ev |-> "handled", id |-> "L2"], [ev |-> "handled", id |-> "L1"]>>

(***************************************************************************)
(* C2: identity law.  Adapt(b) with no adapters behaves as b: the same     *)
(* side effects, status, headers and body for every request.               *)
(***************************************************************************)
IdentityLaw ==
    (pc = "done" /\ adapters = <<>>) => (handler = base /\ w = BaseAlone)

IdentityWitness ==
    /\ pc = "done"
    /\ adapters = <<>>
    /\ base = HandlerFunc("h", StatusInternalServerError, FALSE)
    /\ w.status = StatusInternalServerError
    /\ Calls(w, "h") = 1

(***************************************************************************)
(* C3: RequestMethod(method).  The primary handler is invoked exactly once *)
(* when the request method equals method exactly; otherwise it is not      *)
(* invoked and the response is 405 with the fixed message.                 *)
(***************************************************************************)
RequestMethodGate ==
    Single("RequestMethod") =>
        IF r.Method = adapters[1].method
        THEN w = BaseAlone /\ (CallerBase => Calls(w, "h") = 1)
        ELSE /\ Calls(w, "h") = 0
             /\ w.log = <<>>
             /\ StatusCode(w) = StatusMethodNotAllowed
             /\ w.body = <<"Request method not allowed", "\n">>

RequestMethodWitness ==
    /\ Single("RequestMethod")
    /\ adapters[1].method = "GET"
    /\ r.Method = "get"
    /\ CallerBase
    /\ StatusCode(w) = StatusMethodNotAllowed

(***************************************************************************)
(* C4: GetAndOtherRequest(otherHandler, method) dispatches three ways.     *)
(* As stated: a request whose method equals method goes to otherHandler    *)
(* only, a GET request goes to the primary handler only, any other method  *)
(* gets 405 and neither handler.                                           *)
(***************************************************************************)
ThreeWayDispatchAsStated ==
    (Single("GetAndOtherRequest") /\ CallerBase) =>
        /\ r.Method = adapters[1].method => (Calls(w, "other") = 1 /\ Calls(w, "h") = 0)
        /\ r.Method = "GET" => (Calls(w, "h") = 1 /\ Calls(w, "other") = 0)
        /\ (r.Method # adapters[1].method /\ r.Method # "GET") =>
              /\ Calls(w, "h") = 0
              /\ Calls(w, "other") = 0
              /\ StatusCode(w) = StatusMethodNotAllowed

\* C4 as amended: the configured method is tested first, so a GET request
\* goes to the primary handler only when the configured method is not GET.
ThreeWayDispatch ==
    Single("GetAndOtherRequest") =>
        /\ r.Method = adapters[1].method =>
              /\ w = ServeHTTP(otherHandler, NewResponseWriter, r)
              /\ Calls(w, "other") = 1
              /\ Calls(w, "h") = 0
        /\ (r.Method = "GET" /\ adapters[1].method # "GET") =>
              /\ w = BaseAlone
              /\ Calls(w, "other") = 0
              /\ CallerBase => Calls(w, "h") = 1
        /\ (r.Method # adapters[1].method /\ r.Method # "GET") =>
              /\ w.log = <<>>
              /\ StatusCode(w) = StatusMethodNotAllowed
              /\ w.body = <<"Request method not allowed", "\n">>

ThreeWayDispatchWitness ==
    /\ Single("GetAndOtherRequest")
    /\ adapters[1].method = "GET"
    /\ r.Method = "GET"
    /\ CallerBase
    /\ Calls(w, "other") = 1
    /\ Calls(w, "h") = 0

(***************************************************************************)
(* C5: DisallowLongerPaths(exactPath, notFoundHandler).  The primary       *)
(* handler is invoked if and only if the request path equals exactPath;    *)
(* for any other path, a longer one included, notFoundHandler runs         *)
(* instead, and with the standard not-found responder the status is 404.   *)
(***************************************************************************)
ExactPathGate ==
    Single("DisallowLongerPaths") =>
        IF r.Path = adapters[1].path
        THEN /\ w = BaseAlone
             /\ Calls(w, "notFound") = 0
             /\ CallerBase => Calls(w, "h") = 1
        ELSE /\ Calls(w, "h") = 0
             /\ w.log[1] = [ev |-> "unexpected path", id |-> "std"]
             /\ adapters[1].notFoundHandler = NotFoundHandler =>
                   (StatusCode(w) = StatusNotFound /\ Len(w.log) = 1)
             /\ adapters[1].notFoundHandler = customNotFound =>
                   (Calls(w, "notFound") = 1 /\ StatusCode(w) = customNotFound.code)

ExactPathWitness ==
    /\ Single("DisallowLongerPaths")
    /\ adapters[1].path = <<"/login">>
    /\ r.Path = <<"/login", "/extra">>
    /\ adapters[1].notFoundHandler = NotFoundHandler
    /\ CallerBase
    /\ StatusCode(w) = StatusNotFound

(***************************************************************************)
(* C6: EnsureHTTPS(allow).  The primary handler is invoked if and only if  *)
(* the TLS handshake completed, or allow is true and X-Forwarded-Proto is  *)
(* https; on such a request the primary handler's response is returned     *)
(* unchanged.  EnsureHTTPS(false) never trusts the header.                 *)
(***************************************************************************)
SecureAsSpecified(allow, req) ==
    req.TLS = "complete" \/ (allow /\ req.XForwardedProto = <<"https">>)

EnsureHTTPSGate ==
    Single("EnsureHTTPS") =>
        IF SecureAsSpecified(adapters[1].allowXForwardedProto, r)
        THEN w = BaseAlone /\ (CallerBase => Calls(w, "h") = 1)
        ELSE Calls(w, "h") = 0 /\ (CallerBase => w # BaseAlone)

EnsureHTTPSGateWitness ==
    /\ Single("EnsureHTTPS")
    /\ ~adapters[1].allowXForwardedProto
    /\ r.TLS = "incomplete"
    /\ r.XForwardedProto = <<"https">>
    /\ CallerBase
    /\ Calls(w, "h") = 0

(***************************************************************************)
(* C7: EnsureHTTPS on a request that is not secure answers 307 with        *)
(* Location https://<host><path>, followed by ?<query> exactly when the    *)
(* raw query is not empty, and does not invoke the primary handler.        *)
(***************************************************************************)
LocationAsSpecified(host, req) ==
    <<"https://">> \o host \o req.Path
        \o (IF req.RawQuery = <<>> THEN <<>> ELSE <<"?">> \o req.RawQuery)

EnsureHTTPSRedirects ==
    (Single("EnsureHTTPS") /\ ~SecureAsSpecified(adapters[1].allowXForwardedProto, r)) =>
        /\ StatusCode(w) = StatusTemporaryRedirect
        /\ GetHeader(w, HeaderLocation) = LocationAsSpecified(r.Host, r)
        /\ Calls(w, "h") = 0
        /\ w.log = <<[ev |-> "redirect", id |-> "std"]>>

EnsureHTTPSRedirectsWitness ==
    /\ Single("EnsureHTTPS")
    /\ r.TLS = "nil"
    /\ r.RawQuery = <<>>
    /\ r.Host = <<"example.com", ":", "8080">>
    /\ r.Path = <<"/login">>
    /\ GetHeader(w, HeaderLocation) = <<"https://", "example.com", ":", "8080", "/login">>
    /\ w.status = StatusTemporaryRedirect

(***************************************************************************)
(* C8: HTTPSRedirect answers every request, whatever its transport         *)
(* security and headers, with 307 to an https URL.  As stated: the URL     *)
(* has the same host, path and query as the request.                       *)
(***************************************************************************)
RedirectSameHostAsStated ==
    (pc = "done" /\ adapters = <<>> /\ base.kind \in {"HTTPSRedirect", "HTTPSRedirectNoPort"}) =>
        /\ StatusCode(w) = StatusTemporaryRedirect
        /\ GetHeader(w, HeaderLocation) = LocationAsSpecified(r.Host, r)

\* the part of a host before its first ":"
HostName(host) ==
    IF \E i \in 1..Len(host) : host[i] = ":"
    THEN SubSeq(host, 1, (CHOOSE i \in 1..Len(host) :
                             host[i] = ":" /\ \A j \in 1..(i - 1) : host[j] # ":") - 1)
    ELSE host

\* C8 as amended: HTTPSRedirect(port) redirects to the request's host name
\* (the part of Host before the first ":") followed by ":" and the
\* configured port, with the request's path and query; the earlier,
\* port-less HTTPSRedirect() keeps Host as it is.
RedirectToConfiguredPort ==
    (pc = "done" /\ adapters = <<>>) =>
        /\ base.kind = "HTTPSRedirect" =>
              /\ StatusCode(w) = StatusTemporaryRedirect
              /\ GetHeader(w, HeaderLocation) = LocationAsSpecified(HostName(r.Host) \o <<":">> \o base.port, r)
        /\ base.kind = "HTTPSRedirectNoPort" =>
              /\ StatusCode(w) = StatusTemporaryRedirect
              /\ GetHeader(w, HeaderLocation) = LocationAsSpecified(r.Host, r)

RedirectToConfiguredPortWitness ==
    /\ pc = "done"
    /\ adapters = <<>>
    /\ base = HTTPSRedirect(<<"443">>)
    /\ r.Host = <<"example.com", ":", "8080">>
    /\ r.TLS = "complete"
    /\ r.RawQuery = <<"a=1">>
    /\ GetHeader(w, HeaderLocation) = <<"https://", "example.com", ":", "443", "/login", "?", "a=1">>

(***************************************************************************)
(* C9: OnCheck(predicate, elseHandler, logMessage), in its panic/recover   *)
(* form and in its direct form.  When the predicate returns, exactly one   *)
(* of the primary handler and elseHandler runs, exactly once: the primary  *)
(* when it returned true, elseHandler, after the log message, when it      *)
(* returned false.                                                         *)
(***************************************************************************)
OnCheckExactlyOne ==
    ((Single("OnCheck") \/ Single("OnCheckDirect")) /\ CallerBase) =>
        /\ adapters[1].f = "true" =>
              /\ Calls(w, "h") = 1
              /\ Calls(w, "else") = 0
              /\ FirstAt(w, [ev |-> "logOnFalse", id |-> "std"]) = 0
        /\ adapters[1].f = "false" =>
              /\ Calls(w, "h") = 0
              /\ Calls(w, "else") = 1
              /\ FirstAt(w, [ev |-> "logOnFalse", id |-> "std"]) > 0
              /\ FirstAt(w, [ev |-> "logOnFalse", id |-> "std"])
                    < FirstAt(w, [ev |-> "call", id |-> "else"])
        /\ adapters[1].f # "panic" => Calls(w, "f") = 1

OnCheckWitness ==
    /\ Single("OnCheck")
    /\ adapters[1].f = "false"
    /\ CallerBase
    /\ Calls(w, "else") = 1
    /\ Calls(w, "h") = 0

(***************************************************************************)
(* C10: CountHTTPResponses.  Under any interleaving, the counter of each   *)
(* label triple (P, S, M) has increased by exactly the number of           *)
(* completed requests to path P with method M and recorded status S; no    *)
(* increment is lost and no other counter changes.                         *)
(***************************************************************************)
\* the requests that have completed with the given path, status and method
Completed(path, status, method) ==
    {p \in Procs : /\ procs[p].pc = "done"
                   /\ procs[p].r.Path = path
                   /\ procs[p].sr.status = status
                   /\ procs[p].r.Method = method}

StatusLabel ==
    [c \in InnerCodes \cup {StatusOK} |->
        CASE c = StatusOK -> <<"2", "0", "0">>
          [] c = StatusNotFound -> <<"4", "0", "4">>
          [] c = StatusInternalServerError -> <<"5", "0", "0">>]

CountedExactly ==
    /\ \A req \in CountRequests, c \in InnerCodes \cup {StatusOK} :
          Value(httpRequests, <<req.Path, StatusLabel[c], req.Method>>)
              = Cardinality(Completed(req.Path, c, req.Method))
    /\ \A k \in DOMAIN httpRequests :
          \E p \in Procs, c \in InnerCodes \cup {StatusOK} :
              /\ procs[p].pc \in {"labelled", "done"}
              /\ procs[p].sr.status = c
              /\ k = <<procs[p].r.Path, StatusLabel[c], procs[p].r.Method>>

CountedExactlyWitness ==
    /\ \A p \in Procs : procs[p].pc = "done"
    /\ \A p \in Procs : procs[p].r.Path = <<"/login">> /\ procs[p].r.Method = "POST"
    /\ \A p \in Procs : procs[p].sr.status = StatusNotFound
    /\ httpRequests[<<<<"/login">>, <<"4", "0", "4">>, "POST">>] = MaxRequests

(***************************************************************************)
(* C13: Notify.  The entry line is logged before the inner handler starts  *)
(* and the completion line exactly once after control leaves it, on every  *)
(* exit path, a panic of the inner handler included.                       *)
(***************************************************************************)
\* what the handler wrapped by the outermost adapter does on its own
InnerAlone == ServeHTTP(handler.h, NewResponseWriter, r)

NotifyBrackets ==
    (pc = "done" /\ Len(adapters) >= 1 /\ adapters[1].kind = "Notify") =>
        /\ w.log = <<[ev |-> "Handling", id |-> adapters[1].logger]>>
                      \o InnerAlone.log
                      \o <<[ev |-> "handled", id |-> adapters[1].logger]>>
        /\ w.panicking = InnerAlone.panicking
        /\ w.status = InnerAlone.status

NotifyBracketsWitness ==
    /\ pc = "done"
    /\ adapters = <<Notify("L1")>>
    /\ base = handlerPanic
    /\ w.panicking
    /\ w.log = <<[ev |-> "Handling", id |-> "L1"], [ev |-> "call", id |-> "h"],
                 [ev |-> "handled", id |-> "L1"]>>

(***************************************************************************)
(* C14: a policy rejection short-circuits the chain.  When the adapters    *)
(* before ai delegate and ai (RequestMethod or GetAndOtherRequest on a     *)
(* method it does not allow, DisallowLongerPaths on another path) rejects  *)
(* the request, no adapter after ai and not the base handler is invoked,   *)
(* and the response carries the status of the rejection.                   *)
(***************************************************************************)
Rejects(a, req) ==
    CASE a.kind = "RequestMethod" -> req.Method # a.method
      [] a.kind = "GetAndOtherRequest" -> req.Method # a.method /\ req.Method # "GET"
      [] a.kind = "DisallowLongerPaths" -> req.Path # a.path
      [] OTHER -> FALSE

\* what the rejection itself leaves in the log
RejectionLog(a) ==
    IF a.kind = "DisallowLongerPaths"
    THEN <<[ev |-> "unexpected path", id |-> "std"]>>
            \o (IF a.notFoundHandler = customNotFound
                THEN <<[ev |-> "call", id |-> "notFound"]>> ELSE <<>>)
    ELSE <<>>

RejectionStatus(a) ==
    IF a.kind = "DisallowLongerPaths" THEN StatusNotFound ELSE StatusMethodNotAllowed

RejectionShortCircuits ==
    pc = "done" =>
        \A i \in 1..Len(adapters) :
            (Rejects(adapters[i], r) /\ \A j \in 1..(i - 1) : Passes(adapters[j], r)) =>
                LET before == SubSeq(adapters, 1, i - 1)
                IN /\ w.log = EntryLog(before) \o RejectionLog(adapters[i]) \o ExitLog(before)
                   /\ Calls(w, "h") = 0
                   /\ StatusCode(w) = RejectionStatus(adapters[i])
                   /\ ~w.panicking

RejectionWitness ==
    /\ pc = "done"
    /\ adapters = <<RequestMethod("GET"), Notify("L2")>>
    /\ r.Method = "POST"
    /\ base = handlerTester
    /\ w.log = <<>>
    /\ w.status = StatusMethodNotAllowed


InjectionKinds == {"AddHeader", "AddHeaderWithFunc", "AddCookieWithFunc"}

InstrumentationKinds == {"CountHTTPResponses", "TrackHTTPResponseTimes"}

\* the header an injection adapter leaves on the response, under the name
\* the header map keeps it by
InjectedHeader(a) ==
    CASE a = AddHeader(HeaderXFrameOptions, <<"DENY">>) ->
            [n \in {<<"X", "-", "F", "r", "a", "m", "e", "-", "O", "p", "t", "i", "o", "n", "s">>} |-> <<"DENY">>]
      [] a = AddHeaderWithFunc(HeaderXCSRFToken, <<"token">>) ->
            [n \in {<<"X", "-", "C", "s", "r", "f", "-", "T", "o", "k", "e", "n">>} |-> <<"token">>]
      [] a.kind = "AddCookieWithFunc" ->
            IF a.tg THEN NoHeader
            ELSE [n \in {<<"S", "e", "t", "-", "C", "o", "o", "k", "i", "e">>} |-> <<"cookie">>]

\* the entries of header map g, and those of f under the other names
Merged(f, g) ==
    [n \in DOMAIN f \cup DOMAIN g |-> IF n \in DOMAIN g THEN g[n] ELSE f[n]]

(***************************************************************************)
(* C15: injection adapters always delegate.  For every request, AddHeader, *)
(* AddHeaderWithFunc and AddCookieWithFunc inject first (the generator or  *)
(* cookie writer is called exactly once, in the request), then run the     *)
(* primary handler exactly once; a failure of the cookie writer changes    *)
(* neither the delegation nor the response status.                         *)
(***************************************************************************)
InjectionDelegates ==
    (pc = "done" /\ Len(adapters) = 1 /\ adapters[1].kind \in InjectionKinds) =>
        LET a == adapters[1]
            tgCalls == IF a.kind = "AddHeader" THEN <<>>
                       ELSE <<[ev |-> "call", id |-> "tg"]>>
        IN /\ w.log = tgCalls \o BaseAlone.log
           /\ Calls(w, "tg") = Len(tgCalls)
           /\ CallerBase => Calls(w, "h") = 1
           /\ w.header = Merged(BaseAlone.header, InjectedHeader(a))
           /\ w.status = BaseAlone.status
           /\ GetHeader(w, HeaderLocation) = GetHeader(BaseAlone, HeaderLocation)
           /\ w.body = BaseAlone.body
           /\ w.panicking = BaseAlone.panicking

InjectionDelegatesWitness ==
    /\ pc = "done"
    /\ adapters = <<AddCookieWithFunc(<<"c", "s", "r", "f">>, TRUE)>>
    /\ base = HandlerFunc("h", StatusInternalServerError, FALSE)
    /\ w.log = <<[ev |-> "call", id |-> "tg"], [ev |-> "call", id |-> "h"]>>
    /\ w.header = NoHeader
    /\ w.status = StatusInternalServerError

(***************************************************************************)
(* C18: CountHTTPResponses increments and TrackHTTPResponseTimes observes  *)
(* only after the inner handler has returned normally; when the inner      *)
(* handler panics nothing is recorded for any label triple, and the panic  *)
(* goes on.                                                                *)
(***************************************************************************)
RecordsOnlyOnReturn ==
    (pc = "done" /\ Len(adapters) = 1 /\ adapters[1].kind \in InstrumentationKinds) =>
        IF BaseAlone.panicking
        THEN w.metrics = <<>> /\ w.panicking
        ELSE /\ Len(w.metrics) = 1
             /\ w.metrics[1].name = adapters[1].name
             /\ w.log = BaseAlone.log

RecordsOnlyOnReturnWitness ==
    /\ pc = "done"
    /\ adapters = <<TrackHTTPResponseTimes>>
    /\ base = handlerPanic
    /\ Calls(w, "h") = 1
    /\ w.panicking
    /\ w.metrics = <<>>

\* adapter a hands the request to its primary handler
Delegates(a, req) ==
    \/ Passes(a, req)
    \/ a.kind \in {"OnCheck", "OnCheckDirect"} /\ a.f = "true"
    \/ a.kind \in InjectionKinds \cup InstrumentationKinds

\* the handlers that ran, in order, the adapter's own callbacks left out
HandlerCalls(rw) ==
    SelectSeq(rw.log, LAMBDA e : e.ev = "call" /\ e.id \notin {"f", "tg"})

(***************************************************************************)
(* C17: no adapter catches a panic of the handler it wraps.  When the      *)
(* outermost adapter hands the request to its primary handler and that     *)
(* handler panics, the panic leaves the adapter: the request ends          *)
(* panicking, no alternate handler runs, and no response is written in     *)
(* place of the panic.  This holds for the panic/recover OnCheck too.      *)
(***************************************************************************)
PanicPropagates ==
    (pc = "done" /\ Len(adapters) >= 1 /\ Delegates(adapters[1], r)
        /\ InnerAlone.panicking) =>
        /\ w.panicking
        /\ HandlerCalls(w) = HandlerCalls(InnerAlone)
        /\ w.status = InnerAlone.status
        /\ w.body = InnerAlone.body

PanicPropagatesWitness ==
    /\ pc = "done"
    /\ adapters = <<OnCheck("true", falseHandler, "logOnFalse")>>
    /\ base = handlerPanic
    /\ w.panicking
    /\ w.log = <<[ev |-> "call", id |-> "f"], [ev |-> "call", id |-> "h"]>>

\* the names of the collectors of the two constructors
CollectorNames == {CountHTTPResponses.name, TrackHTTPResponseTimes.name}

\* the i-th constructor call repeats an earlier one
Repeated(i) == \E j \in 1..(i - 1) : process.calls[j] = process.calls[i]

(***************************************************************************)
(* C12: single instantiation.  The first call of each constructor          *)
(* registers one collector of its name and returns the adapter; a second   *)
(* call of the same constructor ends in a fatal error, returns no adapter, *)
(* and leaves one collector of that name in the registry.                  *)
(***************************************************************************)
SingleInstantiation ==
    LET n == Len(process.calls)
        returned == IF process.fatal THEN SubSeq(process.calls, 1, n - 1)
                    ELSE process.calls
    IN /\ \A c \in CollectorNames :
             Cardinality({i \in DOMAIN process.registry : process.registry[i] = c})
                 = IF \E i \in 1..n : process.calls[i] = c THEN 1 ELSE 0
       /\ process.fatal <=> (n >= 1 /\ Repeated(n))
       /\ \A i \in 1..(n - 1) : ~Repeated(i)
       /\ [i \in DOMAIN process.built |-> process.built[i].name] = returned

SingleInstantiationWitness ==
    /\ process.fatal
    /\ process.calls = <<"http_requests_total", "http_requests_secs", "http_requests_total">>
    /\ process.registry = <<"http_requests_total", "http_requests_secs">>
    /\ process.built = <<CountHTTPResponses, TrackHTTPResponseTimes>>
    /\ \E p \in Procs : procs[p].pc = "done"

\* what the composed handler does for the request of goroutine p served alone
ServedAlone(p) == ServeHTTP(handler, NewResponseWriter, goroutines[p].r)

\* every finished request has the outcome it has when served alone
OutcomeAsAlone ==
    \A p \in Goroutines : goroutines[p].pc = "done" => goroutines[p].rw = ServedAlone(p)

\* the requests whose update of collector n for label values k took place
Updated(n, k) ==
    {p \in Goroutines :
        \E i \in DOMAIN goroutines[p].rw.metrics :
            goroutines[p].rw.metrics[i] = [name |-> n, labels |-> k]}

\* the collectors hold the updates of the requests and nothing else
CollectorsTally ==
    \A n \in DOMAIN collectors :
        /\ \A k \in DOMAIN collectors[n] : collectors[n][k] = Cardinality(Updated(n, k))
        /\ \A p \in Goroutines : \A i \in DOMAIN goroutines[p].rw.metrics :
              goroutines[p].rw.metrics[i].name = n =>
                  goroutines[p].rw.metrics[i].labels \in DOMAIN collectors[n]

\* the chain stays as it was built
ChainFixed == base' = base /\ adapters' = adapters /\ handler' = handler

\* a step of one request leaves the state of every other request alone
OnlyOwnState ==
    \A p, q \in Goroutines :
        (p # q /\ goroutines'[p] # goroutines[p]) => goroutines'[q] = goroutines[q]

(***************************************************************************)
(* C16: concurrent-request independence.  Under every interleaving of the  *)
(* requests served at once by one composed handler, each request's outcome *)
(* (handlers run, status, headers) is that of the request served alone;    *)
(* the only state a request shares with the others is the metric           *)
(* collectors, and the chain is never changed after construction.          *)
(***************************************************************************)
ConcurrentIndependence ==
    /\ [](OutcomeAsAlone /\ CollectorsTally)
    /\ [][ChainFixed /\ OnlyOwnState]_vars

ConcurrentIndependenceWitness ==
    /\ adapters = <<Notify("L1"), CountHTTPResponses, RequestMethod(MethodGet)>>
    /\ base = HandlerWrites("h", <<StatusNotFound>>)
    /\ goroutines[1].pc = "done" /\ goroutines[1].r.Method = "GET"
    /\ goroutines[1].rw.status = StatusNotFound
    /\ goroutines[2].pc = "unwinding" /\ goroutines[2].r.Method = "POST"
    /\ goroutines[2].r.Path = goroutines[1].r.Path
    /\ goroutines[2].rw.status = StatusMethodNotAllowed
    /\ Len(goroutines[2].frames) = 1
    /\ collectors["http_requests_total"]
          = [k \in {<<goroutines[1].r.Path, <<"4", "0", "4">>, "GET">>,
                    <<goroutines[1].r.Path, <<"4", "0", "5">>, "POST">>} |-> 1]
====
